---- MODULE Spec2Model ----
(***************************************************************************)
(* Crontal RFQ backend (backend/server.js): the two in-memory registries   *)
(* rfqStore and quoteStore, and the request handlers that read and write   *)
(* them.  Node runs one handler step at a time; an async handler gives up  *)
(* control at each await, so every action below is the code between two    *)
(* awaits of one handler (or a whole synchronous handler).                 *)
(***************************************************************************)
EXTENDS Integers, Sequences, FiniteSets, TLC

VARIABLES
  now,        \* Date.now(), as milliseconds since the process started
  alive,      \* the node process is running
  rfqStore,   \* own properties of rfqStore: [id -> rfq]
  quoteStore, \* own properties of quoteStore: [id -> array of quotes]
  nreq,       \* number of requests received so far
  handlers,   \* async handlers suspended at an await: [request -> frame]
  request,    \* the request the latest step accepted
  call,       \* what the latest step exchanged with the reasoning collaborator
  response,   \* the response the latest step sent
  returned    \* ids of the RFQs returned by normalization requests so far

vars == <<now, alive, rfqStore, quoteStore, nreq, handlers, request, call, response,
          returned>>

----------------------------------------------------------------------------
(* Bounds of the model *)

MaxReq == 3     \* requests received in one run
MaxClock == 1   \* clock ticks in one run
MaxFiles == 2   \* files in one upload batch

----------------------------------------------------------------------------
(* JavaScript values.  Strings are TLA+ strings: + and template literals   *)
(* are \o, .length is Len, .slice is SubSeq.  An object is its ordered     *)
(* list of own properties.                                                 *)

Undefined == [t |-> "undefined"]
Null == [t |-> "null"]
Str(s) == [t |-> "string", v |-> s]
Num(n) == [t |-> "number", v |-> n]
Arr(s) == [t |-> "array", v |-> s]
Obj(props) == [t |-> "object", v |-> props]
Fn(name) == [t |-> "function", v |-> name]

Truthy(x) ==
  CASE x.t = "undefined" -> FALSE
    [] x.t = "null" -> FALSE
    [] x.t = "string" -> x.v # ""
    [] x.t = "number" -> x.v # 0
    [] OTHER -> TRUE

\* a || b
Or(a, b) == IF Truthy(a) THEN a ELSE b

\* reading x.k throws a TypeError
PropThrows(x) == x.t \in {"undefined", "null"}

\* x.k, for x that is neither undefined nor null
Prop(x, k) ==
  IF x.t = "object" /\ \E i \in 1..Len(x.v) : x.v[i][1] = k
  THEN x.v[CHOOSE i \in 1..Len(x.v) : x.v[i][1] = k][2]
  ELSE Undefined

\* `${x}`
Tpl(x) ==
  CASE x.t = "string" -> x.v
    [] x.t = "number" -> ToString(x.v)
    [] x.t = "undefined" -> "undefined"
    [] x.t = "null" -> "null"
    [] OTHER -> "[object Object]"

IsArray(x) == x.t = "array"

Whitespace == {" ", "\n", "\t", "\r"}

\* s.trim() === ""
Blank(s) == \A i \in 1..Len(s) : SubSeq(s, i, i) \in Whitespace

RECURSIVE TrimLeft(_)
TrimLeft(s) ==
  IF s # "" /\ SubSeq(s, 1, 1) \in Whitespace
  THEN TrimLeft(SubSeq(s, 2, Len(s)))
  ELSE s

RECURSIVE TrimRight(_)
TrimRight(s) ==
  IF s # "" /\ SubSeq(s, Len(s), Len(s)) \in Whitespace
  THEN TrimRight(SubSeq(s, 1, Len(s) - 1))
  ELSE s

\* s.trim()
Trim(s) == TrimRight(TrimLeft(s))

\* parts.join(sep)
RECURSIVE Join(_, _)
Join(parts, sep) ==
  IF parts = <<>> THEN ""
  ELSE IF Len(parts) = 1 THEN parts[1]
  ELSE parts[1] \o sep \o Join(Tail(parts), sep)

\* JSON.stringify(x): a property whose value is undefined or a function is
\* left out of an object and written null in an array.  (Indentation and
\* escaping are not modelled.)
RECURSIVE Stringify(_)
Stringify(x) ==
  CASE x.t = "string" -> "\"" \o x.v \o "\""
    [] x.t = "number" -> ToString(x.v)
    [] x.t = "null" -> "null"
    [] x.t = "array" ->
         "[" \o Join([i \in 1..Len(x.v) |->
                        IF x.v[i].t \in {"undefined", "function"} THEN "null"
                        ELSE Stringify(x.v[i])], ",") \o "]"
    [] x.t = "object" ->
         LET kept == SelectSeq(x.v, LAMBDA p : p[2].t \notin {"undefined", "function"})
         IN "{" \o Join([i \in 1..Len(kept) |->
                           "\"" \o kept[i][1] \o "\":" \o Stringify(kept[i][2])], ",")
                \o "}"
    [] OTHER -> ""

\* const rfqStore = {}; const quoteStore = {}: a property read finds the
\* own properties first and then what every object inherits from
\* Object.prototype
ObjectPrototypeKeys == {"constructor", "toString"}

Get(store, id) ==
  IF id \in DOMAIN store THEN store[id]
  ELSE IF id \in ObjectPrototypeKeys THEN Fn(id)
  ELSE Undefined

\* store[id] = v
Put(store, id, v) ==
  [k \in DOMAIN store \cup {id} |-> IF k = id THEN v ELSE store[k]]

EmptyObject == [k \in {} |-> Undefined]

----------------------------------------------------------------------------
(* Helper: extract text from Excel/PDF/others.  An uploaded file is its    *)
(* multer record (originalname, path) and what is on disk at that path:    *)
(* readable or not, the workbook's sheets, the bytes as text.              *)

UpperCase == "ABCDEFGHIJKLMNOPQRSTUVWXYZ"
LowerCase == "abcdefghijklmnopqrstuvwxyz"

LowerChar(c) ==
  IF \E i \in 1..Len(UpperCase) : SubSeq(UpperCase, i, i) = c
  THEN LET i == CHOOSE k \in 1..Len(UpperCase) : SubSeq(UpperCase, k, k) = c
       IN SubSeq(LowerCase, i, i)
  ELSE c

\* s.toLowerCase()
RECURSIVE ToLowerCase(_)
ToLowerCase(s) ==
  IF s = "" THEN ""
  ELSE LowerChar(SubSeq(s, 1, 1)) \o ToLowerCase(SubSeq(s, 2, Len(s)))

\* s.split(".").pop()
LastSegment(s) ==
  LET dots == {i \in 1..Len(s) : SubSeq(s, i, i) = "."}
      last == IF dots = {} THEN 0
              ELSE CHOOSE i \in dots : \A j \in dots : j <= i
  IN SubSeq(s, last + 1, Len(s))

\* err.message of a failed fs read
ReadError(file) == "ENOENT: no such file or directory, open '" \o file.path \o "'"

RECURSIVE AllSheetsText(_)
AllSheetsText(sheets) ==
  IF sheets = <<>> THEN ""
  ELSE "\n\nSHEET: " \o sheets[1].name \o "\n" \o sheets[1].csv
       \o AllSheetsText(Tail(sheets))

NoClearTextMarker ==
  "[NO CLEAR TEXT EXTRACTED - PDF may be scanned or graphical. Buyer may need to upload a BOM or type the scope in text.]"

\* extractTextFromFile(file): the text it returns, or threw
extractTextFromFile(file) ==
  LET ext == ToLowerCase(LastSegment(file.originalname))
  IN IF ext \in {"xlsx", "xls"}
     THEN IF ~file.readable
          THEN [threw |-> TRUE, text |-> ""]       \* xlsx.readFile throws
          ELSE [threw |-> FALSE,
                text |-> "EXCEL FILE: " \o file.originalname \o "\n"
                         \o AllSheetsText(file.sheets)]
     ELSE IF ext = "pdf"
     THEN IF ~file.readable
          THEN [threw |-> FALSE,
                text |-> "PDF FILE: " \o file.originalname
                         \o "\n\n[UNABLE TO READ PDF BYTES - " \o ReadError(file) \o "]"]
          ELSE [threw |-> FALSE,
                text |-> "PDF FILE: " \o file.originalname \o "\n\n"
                         \o (IF file.raw = "" \/ Blank(file.raw)
                             THEN NoClearTextMarker ELSE file.raw)]
     ELSE IF ~file.readable
          THEN [threw |-> FALSE,
                text |-> "FILE: " \o file.originalname
                         \o "\n\n[UNABLE TO READ FILE CONTENT - " \o ReadError(file) \o "]"]
          ELSE IF Blank(file.raw)
          THEN [threw |-> FALSE,
                text |-> "FILE: " \o file.originalname \o "\n\n[NO TEXT EXTRACTED]"]
          ELSE [threw |-> FALSE,
                text |-> "FILE: " \o file.originalname \o "\n\n" \o file.raw]

----------------------------------------------------------------------------
(* Helper: OpenAI spec -> line_items.  The fixed instruction texts are     *)
(* abbreviated to their first sentence.                                    *)

MAX_CHARS == 12000

\* the text sent to the model: combinedText cut to MAX_CHARS
Truncated(combinedText) ==
  IF Len(combinedText) > MAX_CHARS
  THEN SubSeq(combinedText, 1, MAX_CHARS) \o "\n\n[TRUNCATED]"
  ELSE combinedText

Msg(role, content) == [role |-> role, content |-> content]

SpecsSystemPrompt ==
  "You are a procurement assistant for industrial stainless steel / metal projects."

\* messages of the call parseSpecsToLineItems makes
parseSpecsMessages(combinedText, project_name) ==
  << Msg("system", SpecsSystemPrompt),
     Msg("user",
         "\nBelow are one or more files from a project specification package\n"
         \o "Provided project_name (may be null): "
         \o Tpl(Or(project_name, Str("null")))
         \o "\n\nTEXT STARTS:\n\"\"\"" \o Truncated(combinedText) \o "\"\"\"\n") >>

----------------------------------------------------------------------------
(* The reasoning collaborator: client.chat.completions.create either       *)
(* rejects with an Error or resolves to a completion whose                 *)
(* choices[0].message.content is a string (or null).                       *)

Rejects(message) == [ok |-> FALSE, message |-> message, content |-> Null]
Resolves(content) == [ok |-> TRUE, message |-> "", content |-> content]
Pending == [ok |-> FALSE, message |-> "(pending)", content |-> Undefined]

LineItem1 ==
  Obj(<< <<"item_id", Str("1")>>,
         <<"raw_description", Str("2-inch SS316 seamless pipe")>>,
         <<"material_grade", Str("SS316")>>,
         <<"quantity", Num(20)>>,
         <<"unit", Str("pcs")>> >>)

\* the JSON documents the collaborator answers with in this model
PlantADocument ==
  Obj(<< <<"project_name", Str("Plant A")>>, <<"line_items", Arr(<<LineItem1>>)>> >>)

\* a document with an empty name and its items given as prose
ScopeOnlyDocument ==
  Obj(<< <<"project_name", Str("")>>, <<"line_items", Str("see attached BOM")>> >>)

JsonDocuments ==
  {Null, Obj(<< <<"project_name", Null>> >>), PlantADocument, ScopeOnlyDocument}

\* JSON.parse(content): content is converted to a string first; a text
\* that is no JSON document throws a SyntaxError
JsonText == [d \in JsonDocuments |-> Stringify(d)]

JSONParse(content) ==
  LET text == Tpl(content)
  IN IF \E d \in JsonDocuments : JsonText[d] = text
     THEN [threw |-> FALSE, message |-> "",
           value |-> CHOOSE d \in JsonDocuments : JsonText[d] = text]
     ELSE [threw |-> TRUE,
           message |-> "Unexpected token in JSON at position 0",
           value |-> Undefined]

NormalizerReplies ==
  { Rejects("Connection error."), Resolves(Str("Sorry, I cannot help with that.")) }
  \cup { Resolves(Str(JsonText[d])) : d \in JsonDocuments }

TextReplies ==
  { Rejects("Connection error."), Resolves(Null), Resolves(Str("  \n")),
    Resolves(Str(" Please confirm the delivery location.\n")) }

----------------------------------------------------------------------------
(* /api/buyer/parse-request                                                *)

\* "RFQ-" + Date.now()
RfqId(t) == "RFQ-" \o ToString(t)

ParseSystemPrompt ==
  "You turn messy natural-language procurement text into a structured RFQ JSON object"

parseRequestMessages(text, project_name) ==
  << Msg("system", ParseSystemPrompt),
     Msg("user",
         "\nBuyer RFQ text:\n\"\"\"" \o Tpl(text) \o "\"\"\"\n\n"
         \o "Provided project_name (may be null): "
         \o Tpl(Or(project_name, Str("null")))
         \o "\n\nExtract line_items and commercial terms.\n") >>

Threw(message) == [threw |-> TRUE, message |-> message, rfq |-> Undefined]
Built(rfq) == [threw |-> FALSE, message |-> "", rfq |-> rfq]

\* a reply that cannot be parsed taken for an empty extraction
parseRequestTryLenient(text, project_name, reply, t) ==
  IF ~reply.ok THEN Threw(reply.message)
  ELSE LET p == JSONParse(reply.content)
           parsed == IF p.threw \/ PropThrows(p.value) THEN Obj(<<>>) ELSE p.value
       IN Built(Obj(<<
            <<"rfq_id", Str(RfqId(t))>>,
            <<"project_name",
              Or(Or(Prop(parsed, "project_name"), project_name), Str("Untitled RFQ"))>>,
            <<"line_items", Or(Prop(parsed, "line_items"), Arr(<<>>))>>,
            <<"original_text", text>> >>))

\* the try block of parse-request after the await: the rfq it builds at
\* time t, or the error it throws
parseRequestTry(text, project_name, reply, t) ==
  IF ~reply.ok THEN Threw(reply.message)
  ELSE LET p == JSONParse(reply.content)
       IN IF p.threw THEN Threw(p.message)
          ELSE IF PropThrows(p.value)
          THEN Threw("Cannot read properties of null (reading 'project_name')")
          ELSE Built(Obj(<<
                 <<"rfq_id", Str(RfqId(t))>>,
                 <<"project_name",
                   Or(Or(Prop(p.value, "project_name"), project_name),
                      Str("Untitled RFQ"))>>,
                 <<"line_items", Or(Prop(p.value, "line_items"), Arr(<<>>))>>,
                 <<"original_text", text>> >>))

\* the write of the RFQ left out
StoreRfqSkipped(store, rfq) == store

\* rfqStore[rfqId] = rfq
StoreRfq(store, rfq) == Put(store, Prop(rfq, "rfq_id").v, rfq)

----------------------------------------------------------------------------
(* Requests the model sends *)

Texts == {Undefined, Str("Need 20 pcs 2-inch SS316 seamless pipe to Houston, NET30")}
ProjectNames == {Undefined, Str(""), Str("Houston expansion")}

\* :id of the rfqs routes: every id the server can issue, and a name that
\* is no RFQ id
RouteIds == {RfqId(t) : t \in 0..MaxClock} \cup {"constructor"}

QuoteA == Obj(<< <<"supplier", Str("Acme")>>, <<"price", Num(100)>> >>)
QuoteB == Obj(<< <<"supplier", Str("Bolt")>>, <<"price", Num(90)>> >>)

\* req.body of a quote submission: a parsed JSON object, or nothing
QuotePayloads == {Undefined, QuoteA, QuoteB}

\* uploaded files: a workbook, a workbook that cannot be read, a PDF that
\* cannot be read, a text file
BomXlsx ==
  [originalname |-> "bom.xlsx", path |-> "uploads/1f0a", readable |-> TRUE,
   sheets |-> <<[name |-> "BOM", csv |-> "item,qty\npipe 2in SS316,20\n"]>>, raw |-> ""]
OldXls ==
  [originalname |-> "old.XLS", path |-> "uploads/2b7c", readable |-> FALSE,
   sheets |-> <<>>, raw |-> ""]
DrawingPdf ==
  [originalname |-> "drawing.pdf", path |-> "uploads/3c9d", readable |-> FALSE,
   sheets |-> <<>>, raw |-> ""]
NotesTxt ==
  [originalname |-> "notes.txt", path |-> "uploads/4d2e", readable |-> TRUE,
   sheets |-> <<>>, raw |-> "Need 20 pcs 2-inch SS316 seamless pipe"]

\* s written n times
RECURSIVE Repeat(_, _)
Repeat(s, n) ==
  IF n = 0 THEN ""
  ELSE LET half == Repeat(s, n \div 2)
       IN half \o half \o (IF n % 2 = 1 THEN s ELSE "")

\* a scope of exactly MAX_CHARS characters, and one that is longer
ExactText == Repeat("pipe 2in; ", MAX_CHARS \div 10)
LongText == ExactText \o "flange 4in"

\* a text file holding the long scope
LongTxt ==
  [originalname |-> "scope.txt", path |-> "uploads/5e3f", readable |-> TRUE,
   sheets |-> <<>>, raw |-> LongText]

\* req.files: up to n of the files, in any order
Batches(files, n) == UNION {[1..k -> files] : k \in 0..n}

\* an rfq as the Normalizer returns it, one in the older field naming, and
\* one whose items are no list
NormalizedRfq ==
  Obj(<< <<"rfq_id", Str(RfqId(0))>>, <<"project_name", Str("Plant A")>>,
         <<"line_items", Arr(<<LineItem1>>)>>,
         <<"original_text", Str("Need 20 pcs")>> >>)
LegacyRfq ==
  Obj(<< <<"id", Str("RFQ-legacy")>>,
         <<"items", Arr(<< Obj(<< <<"line", Num(1)>>, <<"description", Str("pipe")>>,
                                  <<"grade", Str("SS304")>>, <<"quantity", Num(5)>>,
                                  <<"uom", Str("m")>> >>) >>)>> >>)
MalformedRfq == Obj(<< <<"items", Str("see attachment")>> >>)

History1 ==
  Arr(<< Obj(<< <<"role", Str("assistant")>>, <<"content", Str("Which grade?")>> >>),
         Obj(<< <<"role", Str("buyer")>>, <<"content", Str("SS316")>> >>) >>)

\* a history with a role that is neither "assistant" nor "user", an entry
\* without content and an entry without a role
History2 ==
  Arr(<< Obj(<< <<"role", Str("system")>>, <<"content", Str("Be brief.")>> >>),
         Obj(<< <<"role", Str("assistant")>> >>),
         Obj(<< <<"content", Str("Ship to Houston")>> >>) >>)

\* req.body.history: absent, no sequence, empty, and the two above
Histories == {Undefined, Str("none"), Arr(<<>>), History1, History2}

\* req.body.user_message
UserMessages == {Undefined, Str(""), Str("Deliver to Houston")}

----------------------------------------------------------------------------
(* State *)

Response(req, route, id, status, body) ==
  [req |-> req, route |-> route, id |-> id, status |-> status, body |-> body]

Request(req, route, id, body) ==
  [req |-> req, route |-> route, id |-> id, body |-> body]

\* the step accepted no request, sent no response, did not talk to the
\* collaborator
NoRequest == Request(0, "", "", Undefined)
NoResponse == Response(0, "", "", 0, Undefined)
NoCall == [req |-> 0, route |-> "", messages |-> <<>>, reply |-> Pending]
Silent == response' = NoResponse
Quiet == call' = NoCall
Resumed == request' = NoRequest

Init ==
  /\ now = 0
  /\ alive = TRUE
  /\ rfqStore = EmptyObject
  /\ quoteStore = EmptyObject
  /\ nreq = 0
  /\ handlers = EmptyObject
  /\ request = NoRequest
  /\ call = NoCall
  /\ response = NoResponse
  /\ returned = {}

\* the clock advances between handler steps
Tick ==
  /\ alive
  /\ now < MaxClock
  /\ now' = now + 1
  /\ Resumed /\ Silent /\ Quiet
  /\ UNCHANGED <<alive, rfqStore, quoteStore, nreq, handlers, returned>>

\* a request arrives and is given the next request number
Accept(route, id, body) ==
  /\ alive
  /\ nreq < MaxReq
  /\ nreq' = nreq + 1
  /\ request' = Request(nreq + 1, route, id, body)

\* res.status(status).json(body)
Respond(req, route, id, status, body) ==
  response' = Response(req, route, id, status, body)

ErrorBody(error) == Obj(<< <<"error", Str(error)>> >>)
FailureBody(error, detail) ==
  Obj(<< <<"error", Str(error)>>, <<"detail", detail>> >>)

\* client.chat.completions.create({messages}) is issued
Call(req, route, messages) ==
  call' = [req |-> req, route |-> route, messages |-> messages, reply |-> Pending]

\* the call of the suspended handler of request req settles with reply
Settle(req, reply) ==
  call' = [req |-> req, route |-> handlers[req].route, messages |-> <<>>,
           reply |-> reply]

Suspend(req, frame) == handlers' = Put(handlers, req, frame)

Finish(req) == handlers' = [r \in DOMAIN handlers \ {req} |-> handlers[r]]

----------------------------------------------------------------------------
(* POST /api/buyer/parse-request *)

\* if (!text)
parseRequestInvalid(text) == ~Truthy(text)

\* up to the await of the collaborator call
ParseRequest(text, project_name) ==
  /\ Accept("parse-request", "",
            Obj(<< <<"text", text>>, <<"project_name", project_name>> >>))
  /\ IF parseRequestInvalid(text)
     THEN /\ Respond(nreq + 1, "parse-request", "", 400, ErrorBody("Missing text"))
          /\ Quiet
          /\ UNCHANGED handlers
     ELSE /\ Call(nreq + 1, "parse-request", parseRequestMessages(text, project_name))
          /\ Suspend(nreq + 1, [route |-> "parse-request",
                                text |-> text, project_name |-> project_name])
          /\ Silent
  /\ UNCHANGED <<now, alive, rfqStore, quoteStore, returned>>

\* from the await to the response
ParseRequestResume(req, reply) ==
  /\ alive
  /\ Resumed
  /\ req \in DOMAIN handlers
  /\ handlers[req].route = "parse-request"
  /\ LET h == handlers[req]
         try == parseRequestTry(h.text, h.project_name, reply, now)
     IN IF try.threw
        THEN /\ Respond(req, "parse-request", "", 500,
                        FailureBody("Parsing failed", Str(try.message)))
             /\ UNCHANGED <<rfqStore, returned>>
        ELSE /\ rfqStore' = StoreRfq(rfqStore, try.rfq)
             /\ Respond(req, "parse-request", "", 200, try.rfq)
             /\ returned' = returned \cup {Prop(try.rfq, "rfq_id").v}
  /\ Settle(req, reply)
  /\ Finish(req)
  /\ UNCHANGED <<now, alive, quoteStore, nreq>>

----------------------------------------------------------------------------
(* GET /api/rfqs/:id, POST /api/rfqs/:id/quotes, GET /api/rfqs/:id/quotes *)

GetRfq(id) ==
  /\ Accept("get-rfq", id, Undefined)
  /\ LET rfq == Get(rfqStore, id)
     IN IF ~Truthy(rfq)
        THEN Respond(nreq + 1, "get-rfq", id, 404, ErrorBody("RFQ not found"))
        ELSE Respond(nreq + 1, "get-rfq", id, 200, rfq)
  /\ Quiet
  /\ UNCHANGED <<now, alive, rfqStore, quoteStore, handlers, returned>>

\* typeof x === "object"
TypeofObject(x) == x.t \in {"object", "array", "null"}

\* the list replaced by one holding the new quote only, as when two
\* handlers each read the list before either wrote it back
PushQuoteLost(store, id, quote) == Put(store, id, Arr(<<quote>>))

\* unshift in place of push
PushQuoteFront(store, id, quote) ==
  LET list == IF Truthy(Get(store, id)) THEN Get(store, id) ELSE Arr(<<>>)
  IN Put(store, id, Arr(<<quote>> \o list.v))

\* if (!quoteStore[id]) quoteStore[id] = []; quoteStore[id].push(quote)
\* for an id whose entry, if any, is an array
PushQuote(store, id, quote) ==
  LET list == IF Truthy(Get(store, id)) THEN Get(store, id) ELSE Arr(<<>>)
  IN Put(store, id, Arr(Append(list.v, quote)))

\* the handler without its lookup of the RFQ
SubmitQuoteUnchecked(id, quote) ==
  /\ Accept("submit-quote", id, quote)
  /\ IF ~Truthy(quote) \/ ~TypeofObject(quote)
     THEN /\ Respond(nreq + 1, "submit-quote", id, 400, ErrorBody("Invalid quote payload"))
          /\ UNCHANGED quoteStore
     ELSE IF Truthy(Get(quoteStore, id)) /\ ~IsArray(Get(quoteStore, id))
     THEN /\ Respond(nreq + 1, "submit-quote", id, 500,
                     Str("TypeError: quoteStore[id].push is not a function"))
          /\ UNCHANGED quoteStore
     ELSE /\ quoteStore' = PushQuote(quoteStore, id, quote)
          /\ Respond(nreq + 1, "submit-quote", id, 200, Obj(<< <<"ok", Str("true")>> >>))
  /\ Quiet
  /\ UNCHANGED <<now, alive, rfqStore, handlers, returned>>

SubmitQuote(id, quote) ==
  /\ Accept("submit-quote", id, quote)
  /\ IF ~Truthy(Get(rfqStore, id))
     THEN /\ Respond(nreq + 1, "submit-quote", id, 404, ErrorBody("RFQ not found"))
          /\ UNCHANGED quoteStore
     ELSE IF ~Truthy(quote) \/ ~TypeofObject(quote)
     THEN /\ Respond(nreq + 1, "submit-quote", id, 400, ErrorBody("Invalid quote payload"))
          /\ UNCHANGED quoteStore
     ELSE IF Truthy(Get(quoteStore, id)) /\ ~IsArray(Get(quoteStore, id))
     THEN \* .push is not a function: the throw reaches Express's error handler
          /\ Respond(nreq + 1, "submit-quote", id, 500,
                     Str("TypeError: quoteStore[id].push is not a function"))
          /\ UNCHANGED quoteStore
     ELSE /\ quoteStore' = PushQuote(quoteStore, id, quote)
          /\ Respond(nreq + 1, "submit-quote", id, 200, Obj(<< <<"ok", Str("true")>> >>))
  /\ Quiet
  /\ UNCHANGED <<now, alive, rfqStore, handlers, returned>>

\* quoteStore[id] || []
listQuotes(id) == Or(Get(quoteStore, id), Arr(<<>>))

ListQuotes(id) ==
  /\ Accept("list-quotes", id, Undefined)
  /\ Respond(nreq + 1, "list-quotes", id, 200, Obj(<< <<"quotes", listQuotes(id)>> >>))
  /\ Quiet
  /\ UNCHANGED <<now, alive, rfqStore, quoteStore, handlers, returned>>

----------------------------------------------------------------------------
(* An exception that escapes an async handler (thrown outside its try):    *)
(* the handler's promise rejects and nothing in server.js handles it.  What *)
(* follows depends on the installed express and node: the process exits on *)
(* the unhandled rejection, or the rejection is only logged and the request *)
(* is never answered, or the router passes it to the default error handler.*)

Uncaught(req, route, message) ==
  \/ /\ alive' = FALSE
     /\ handlers' = EmptyObject
     /\ Silent
  \/ /\ Silent
     /\ UNCHANGED <<alive, handlers>>
  \/ /\ Respond(req, route, "", 500, Str(message))
     /\ UNCHANGED <<alive, handlers>>

----------------------------------------------------------------------------
(* POST /api/buyer/clarify *)

ClarifySystemPrompt ==
  "You are Crontal's RFQ conversation assistant for industrial stainless steel / metal procurement."

DefaultAssistantMessage ==
  "I've interpreted your RFQ and populated the table. Let me know what delivery location, dates, and payment terms you want so I can tighten it further."

\* rfq.items || rfq.line_items || []
clarifyItems(rfq) == Or(Or(Prop(rfq, "items"), Prop(rfq, "line_items")), Arr(<<>>))

\* xs.map(f) throws: xs is no array, or f reads a property of null/undefined
MapThrows(xs) == ~IsArray(xs) \/ \E i \in 1..Len(xs.v) : PropThrows(xs.v[i])

\* the object clarify summarizes the rfq to
rfqSummary(rfq) ==
  Obj(<< <<"rfq_id", Or(Prop(rfq, "id"), Prop(rfq, "rfq_id"))>>,
         <<"project_name", Prop(rfq, "project_name")>>,
         <<"commercial", Prop(rfq, "commercial")>>,
         <<"line_items",
           Arr([i \in 1..Len(clarifyItems(rfq).v) |->
                  LET li == clarifyItems(rfq).v[i]
                  IN Obj(<< <<"line", Prop(li, "line")>>,
                            <<"description",
                              Or(Or(Prop(li, "description"), Prop(li, "product_type")),
                                 Prop(li, "raw_description"))>>,
                            <<"grade", Or(Prop(li, "grade"), Prop(li, "material_grade"))>>,
                            <<"quantity", Prop(li, "quantity")>>,
                            <<"uom", Or(Prop(li, "uom"), Prop(li, "unit"))>> >>)])>> >>)

\* the role of each entry passed on as it is
historyMessagesRolesKept(history) ==
  IF IsArray(history)
  THEN [i \in 1..Len(history.v) |->
          Msg(Tpl(Prop(history.v[i], "role")),
              Tpl(Or(Prop(history.v[i], "content"), Str(""))))]
  ELSE <<>>

\* Array.isArray(history) ? history.map(...) : []
historyMessages(history) ==
  IF IsArray(history)
  THEN [i \in 1..Len(history.v) |->
          Msg(IF Prop(history.v[i], "role") = Str("assistant") THEN "assistant" ELSE "user",
              Tpl(Or(Prop(history.v[i], "content"), Str(""))))]
  ELSE <<>>

clarifyMessages(rfq, history, user_message) ==
  << Msg("system", ClarifySystemPrompt),
     Msg("user", "Here is the current structured RFQ JSON:\n\n"
                 \o Stringify(rfqSummary(rfq))
                 \o "\n\nUse this as ground truth for what has been parsed so far.") >>
  \o historyMessages(history)
  \o << IF Truthy(Or(user_message, Str("")))
        THEN Msg("user",
                 "Latest buyer message (may clarify destination, dates, payment, etc.):\n\n"
                 \o Tpl(Or(user_message, Str(""))))
        ELSE Msg("user",
                 "No new buyer message; just suggest next refinements based on the RFQ JSON.") >>

\* content as it is, with no trim
OptUntrimmed(content) ==
  IF content.t \in {"undefined", "null"} THEN Undefined ELSE content

\* content?.trim()
OptTrim(content) ==
  IF content.t \in {"undefined", "null"} THEN Undefined ELSE Str(Trim(content.v))

\* if (!rfq)
clarifyInvalid(rfq) == ~Truthy(rfq)

\* up to the await of the collaborator call: what it does to the request,
\* the collaborator and the handler
clarifyBegin(rfq, history, user_message) ==
  /\ Accept("clarify", "",
            Obj(<< <<"rfq", rfq>>, <<"history", history>>,
                   <<"user_message", user_message>> >>))
  /\ IF clarifyInvalid(rfq)
     THEN /\ Respond(nreq + 1, "clarify", "", 400, ErrorBody("Missing rfq in request body"))
          /\ Quiet
          /\ UNCHANGED <<alive, handlers>>
     ELSE IF MapThrows(clarifyItems(rfq))
             \/ (IsArray(history) /\ MapThrows(history))
     THEN /\ Uncaught(nreq + 1, "clarify", "TypeError")
          /\ Quiet
     ELSE /\ Call(nreq + 1, "clarify", clarifyMessages(rfq, history, user_message))
          /\ Suspend(nreq + 1, [route |-> "clarify"])
          /\ Silent
          /\ UNCHANGED alive

\* the rfq of the request kept in the RFQ store
ClarifyCaching(rfq, history, user_message) ==
  /\ clarifyBegin(rfq, history, user_message)
  /\ rfqStore' = IF Truthy(rfq) /\ Prop(rfq, "rfq_id").t = "string"
                 THEN StoreRfq(rfqStore, rfq) ELSE rfqStore
  /\ UNCHANGED <<now, quoteStore, returned>>

Clarify(rfq, history, user_message) ==
  /\ clarifyBegin(rfq, history, user_message)
  /\ UNCHANGED <<now, rfqStore, quoteStore, returned>>

\* from the await to the response
ClarifyResume(req, reply) ==
  /\ alive
  /\ Resumed
  /\ req \in DOMAIN handlers
  /\ handlers[req].route = "clarify"
  /\ IF ~reply.ok
     THEN Respond(req, "clarify", "", 500,
                  FailureBody("Clarify failed", Or(Str(reply.message), Str("Error"))))
     ELSE Respond(req, "clarify", "", 200,
                  Obj(<< <<"assistant_message",
                           Or(OptTrim(reply.content), Str(DefaultAssistantMessage))>> >>))
  /\ Settle(req, reply)
  /\ Finish(req)
  /\ UNCHANGED <<now, alive, rfqStore, quoteStore, nreq, returned>>

----------------------------------------------------------------------------
(* POST /api/buyer/negotiate *)

NegotiateSystemPrompt ==
  "You are Crontal's negotiation assistant helping an industrial buyer negotiate RFQs with suppliers."

\* rfq.items || []
negotiateItems(rfq) == Or(Prop(rfq, "items"), Arr(<<>>))

\* the context object negotiate sends
negotiateContext(rfq, quote) ==
  Obj(<< <<"rfq",
           Obj(<< <<"id", Or(Prop(rfq, "id"), Prop(rfq, "rfq_id"))>>,
                  <<"commercial", Prop(rfq, "commercial")>>,
                  <<"items",
                    Arr([i \in 1..Len(negotiateItems(rfq).v) |->
                           LET it == negotiateItems(rfq).v[i]
                           IN Obj(<< <<"line", Prop(it, "line")>>,
                                     <<"description", Prop(it, "description")>>,
                                     <<"grade", Prop(it, "grade")>>,
                                     <<"quantity", Prop(it, "quantity")>>,
                                     <<"uom", Prop(it, "uom")>> >>)])>> >>)>>,
         <<"quote", quote>> >>)

negotiateMessages(rfq, quote, goal) ==
  << Msg("system", NegotiateSystemPrompt),
     Msg("user", "RFQ and quote data:\n"
                 \o Stringify(negotiateContext(rfq, quote))
                 \o "\n\nNegotiation goal: "
                 \o Tpl(Or(goal, Str("negotiate this quote in the buyer's favor")))) >>

\* && in place of ||
negotiateInvalidBoth(rfq, quote) == ~Truthy(rfq) /\ ~Truthy(quote)

\* if (!rfq || !quote)
negotiateInvalid(rfq, quote) == ~Truthy(rfq) \/ ~Truthy(quote)

\* up to the await of the collaborator call
Negotiate(rfq, quote, goal) ==
  /\ Accept("negotiate", "",
            Obj(<< <<"rfq", rfq>>, <<"quote", quote>>, <<"goal", goal>> >>))
  /\ IF negotiateInvalid(rfq, quote)
     THEN /\ Respond(nreq + 1, "negotiate", "", 400,
                     ErrorBody("Missing rfq or quote in request body"))
          /\ Quiet
          /\ UNCHANGED <<alive, handlers>>
     ELSE IF MapThrows(negotiateItems(rfq))
     THEN /\ Uncaught(nreq + 1, "negotiate", "TypeError")
          /\ Quiet
     ELSE /\ Call(nreq + 1, "negotiate", negotiateMessages(rfq, quote, goal))
          /\ Suspend(nreq + 1, [route |-> "negotiate"])
          /\ Silent
          /\ UNCHANGED alive
  /\ UNCHANGED <<now, rfqStore, quoteStore, returned>>

\* from the await to the response
NegotiateResume(req, reply) ==
  /\ alive
  /\ Resumed
  /\ req \in DOMAIN handlers
  /\ handlers[req].route = "negotiate"
  /\ IF ~reply.ok
     THEN Respond(req, "negotiate", "", 500,
                  FailureBody("Negotiation failed", Or(Str(reply.message), Str("Error"))))
     ELSE Respond(req, "negotiate", "", 200,
                  Obj(<< <<"advice", Or(OptTrim(reply.content), Str(""))>> >>))
  /\ Settle(req, reply)
  /\ Finish(req)
  /\ UNCHANGED <<now, alive, rfqStore, quoteStore, nreq, returned>>

----------------------------------------------------------------------------
(* POST /api/buyer/upload-specs *)

FileSeparator == "\n\n----- FILE SEPARATOR -----\n\n"

\* the text sent when no file gave any
fallbackText(files) ==
  Join([i \in 1..Len(files) |->
          "FILE: " \o files[i].originalname
          \o " (no readable content extracted; likely scanned or unsupported format)"],
       "\n")

\* project_name || parsed.project_name in place of
\* parsed.project_name || project_name
uploadSpecsTryHintFirst(combinedText, project_name, reply, t) ==
  IF ~reply.ok THEN Threw(reply.message)
  ELSE LET p == JSONParse(reply.content)
       IN IF p.threw THEN Threw(p.message)
          ELSE IF PropThrows(p.value)
          THEN Threw("Cannot read properties of null (reading 'project_name')")
          ELSE Built(Obj(<<
                 <<"rfq_id", Str(RfqId(t))>>,
                 <<"project_name",
                   Or(Or(project_name, Prop(p.value, "project_name")),
                      Str("Untitled RFQ"))>>,
                 <<"line_items",
                   IF IsArray(Prop(p.value, "line_items"))
                   THEN Prop(p.value, "line_items") ELSE Arr(<<>>)>>,
                 <<"original_text", Str(combinedText)>> >>))

\* the try block of upload-specs after the await of parseSpecsToLineItems
uploadSpecsTry(combinedText, project_name, reply, t) ==
  IF ~reply.ok THEN Threw(reply.message)
  ELSE LET p == JSONParse(reply.content)
       IN IF p.threw THEN Threw(p.message)
          ELSE IF PropThrows(p.value)
          THEN Threw("Cannot read properties of null (reading 'project_name')")
          ELSE Built(Obj(<<
                 <<"rfq_id", Str(RfqId(t))>>,
                 <<"project_name",
                   Or(Or(Prop(p.value, "project_name"), project_name),
                      Str("Untitled RFQ"))>>,
                 <<"line_items",
                   IF IsArray(Prop(p.value, "line_items"))
                   THEN Prop(p.value, "line_items") ELSE Arr(<<>>)>>,
                 <<"original_text", Str(combinedText)>> >>))

\* the unlink after the push inside the try, with no finally
afterExtractNoFinally(h) ==
  [h EXCEPT
     !.texts = IF ~h.pending.threw /\ h.pending.text # "" /\ ~Blank(h.pending.text)
               THEN Append(h.texts, h.pending.text) ELSE h.texts,
     !.unlinked = IF h.pending.threw THEN h.unlinked
                  ELSE Append(h.unlinked, h.files[h.idx].path)]

\* texts = [text] in place of texts.push(text)
afterExtractReplace(h) ==
  [h EXCEPT
     !.texts = IF ~h.pending.threw /\ h.pending.text # "" /\ ~Blank(h.pending.text)
               THEN <<h.pending.text>> ELSE h.texts,
     !.unlinked = Append(h.unlinked, h.files[h.idx].path)]

\* the body of the for loop after `await extractTextFromFile(file)` settled
\* with outcome pending: texts.push(text) unless it threw or is blank, and
\* fs.unlinkSync(file.path), whose failure is ignored
afterExtract(h) ==
  [h EXCEPT
     !.texts = IF ~h.pending.threw /\ h.pending.text # "" /\ ~Blank(h.pending.text)
               THEN Append(h.texts, h.pending.text) ELSE h.texts,
     !.unlinked = Append(h.unlinked, h.files[h.idx].path)]

\* texts.join(separator), with the fallback text when texts is empty
combinedTextOf(h) ==
  Join(IF h.texts = <<>> THEN <<fallbackText(h.files)>> ELSE h.texts, FileSeparator)

\* if (!files.length)
uploadSpecsInvalid(files) == Len(files) = 0

\* up to the first await: extractTextFromFile(files[0]) has run
UploadSpecs(files, project_name) ==
  /\ Accept("upload-specs", "",
            Obj(<< <<"files", Arr(files)>>, <<"project_name", project_name>> >>))
  /\ IF uploadSpecsInvalid(files)
     THEN /\ Respond(nreq + 1, "upload-specs", "", 400, ErrorBody("No files uploaded."))
          /\ UNCHANGED handlers
     ELSE /\ Suspend(nreq + 1, [route |-> "upload-specs",
                                pc |-> "extract", files |-> files,
                                project_name |-> project_name, idx |-> 1,
                                pending |-> extractTextFromFile(files[1]),
                                texts |-> <<>>, unlinked |-> <<>>,
                                leftover |-> <<>>, combinedText |-> ""])
          /\ Silent
  /\ Quiet
  /\ UNCHANGED <<now, alive, rfqStore, quoteStore, returned>>

\* try { fs.unlinkSync(file.path) } catch { }: when the file was not
\* deleted it is left on disk and nothing else differs
unlinkOutcome(h, path, deleted) ==
  [h EXCEPT !.leftover = IF deleted THEN @ ELSE Append(@, path)]

\* one turn of the loop: from the await of one file's extraction to the
\* await of the next one's, or past the loop to the await of the
\* collaborator call; deleted tells whether unlinkSync succeeded
UploadExtracted(req, deleted) ==
  /\ alive
  /\ Resumed
  /\ req \in DOMAIN handlers
  /\ handlers[req].route = "upload-specs"
  /\ handlers[req].pc = "extract"
  /\ LET h == unlinkOutcome(afterExtract(handlers[req]),
                            handlers[req].files[handlers[req].idx].path, deleted)
     IN IF h.idx < Len(h.files)
        THEN /\ handlers' = Put(handlers, req,
                                [h EXCEPT !.idx = h.idx + 1,
                                          !.pending = extractTextFromFile(h.files[h.idx + 1])])
             /\ Quiet
        ELSE /\ handlers' = Put(handlers, req,
                                [h EXCEPT !.pc = "await",
                                          !.combinedText = combinedTextOf(h)])
             /\ Call(req, "upload-specs",
                     parseSpecsMessages(combinedTextOf(h), h.project_name))
  /\ Silent
  /\ UNCHANGED <<now, alive, rfqStore, quoteStore, nreq, returned>>

\* from the await of parseSpecsToLineItems to the response
UploadSpecsResume(req, reply) ==
  /\ alive
  /\ Resumed
  /\ req \in DOMAIN handlers
  /\ handlers[req].route = "upload-specs"
  /\ handlers[req].pc = "await"
  /\ LET h == handlers[req]
         try == uploadSpecsTry(h.combinedText, h.project_name, reply, now)
     IN IF try.threw
        THEN /\ Respond(req, "upload-specs", "", 500,
                        FailureBody("Parsing failed", Or(Str(try.message), Str("Error"))))
             /\ UNCHANGED <<rfqStore, returned>>
        ELSE /\ rfqStore' = StoreRfq(rfqStore, try.rfq)
             /\ Respond(req, "upload-specs", "", 200, try.rfq)
             /\ returned' = returned \cup {Prop(try.rfq, "rfq_id").v}
  /\ Settle(req, reply)
  /\ Finish(req)
  /\ UNCHANGED <<now, alive, quoteStore, nreq>>

----------------------------------------------------------------------------
(* Specifications.  Each one runs the handlers of a group of routes, as    *)
(* concurrent requests, on the inputs listed with it.                      *)

SomeReplies == {Rejects("Connection error."), Resolves(Str(JsonText[PlantADocument]))}

\* the Normalizer's two entry points and the read of an RFQ
NextNormalize ==
  \/ Tick
  \/ \E text \in Texts : ParseRequest(text, Undefined)
  \/ \E req \in DOMAIN handlers, reply \in NormalizerReplies :
       ParseRequestResume(req, reply)
  \/ \E files \in Batches({NotesTxt}, 1) : UploadSpecs(files, Undefined)
  \/ \E req \in DOMAIN handlers : UploadExtracted(req, TRUE)
  \/ \E req \in DOMAIN handlers, reply \in NormalizerReplies :
       UploadSpecsResume(req, reply)
  \/ \E id \in RouteIds : GetRfq(id)

SpecNormalize == Init /\ [][NextNormalize]_vars

\* the quote ledger, with parse-request creating the RFQs
NextQuotes ==
  \/ Tick
  \/ \E text \in Texts \ {Undefined} : ParseRequest(text, Undefined)
  \/ \E req \in DOMAIN handlers, reply \in SomeReplies : ParseRequestResume(req, reply)
  \/ \E id \in RouteIds, quote \in QuotePayloads : SubmitQuote(id, quote)
  \/ \E id \in RouteIds : ListQuotes(id)
  \/ \E id \in RouteIds : GetRfq(id)

SpecQuotes == Init /\ [][NextQuotes]_vars

\* the four buyer routes, and quote submission filling the ledger
NextBuyer ==
  \/ Tick
  \/ \E text \in Texts : ParseRequest(text, Undefined)
  \/ \E req \in DOMAIN handlers, reply \in SomeReplies : ParseRequestResume(req, reply)
  \/ \E files \in Batches({NotesTxt}, 1) : UploadSpecs(files, Undefined)
  \/ \E req \in DOMAIN handlers : UploadExtracted(req, TRUE)
  \/ \E req \in DOMAIN handlers, reply \in SomeReplies : UploadSpecsResume(req, reply)
  \/ \E rfq \in {Undefined, NormalizedRfq, LegacyRfq, MalformedRfq},
        turn \in {<<Undefined, Undefined>>, <<History1, Str("Deliver to Houston")>>} :
       Clarify(rfq, turn[1], turn[2])
  \/ \E req \in DOMAIN handlers, reply \in TextReplies : ClarifyResume(req, reply)
  \/ \E rfq \in {Undefined, NormalizedRfq, MalformedRfq}, quote \in {Undefined, QuoteA} :
       Negotiate(rfq, quote, Undefined)
  \/ \E req \in DOMAIN handlers, reply \in TextReplies : NegotiateResume(req, reply)
  \/ \E id \in RouteIds : SubmitQuote(id, QuoteA)

SpecBuyer == Init /\ [][NextBuyer]_vars

\* upload-specs on batches of readable and unreadable files, one request
\* after the other within one clock tick
NextUpload ==
  \/ /\ handlers = EmptyObject
     /\ \E files \in Batches({BomXlsx, OldXls, DrawingPdf, NotesTxt}, MaxFiles) :
          UploadSpecs(files, Undefined)
  \/ \E req \in DOMAIN handlers : UploadExtracted(req, TRUE)
  \/ \E req \in DOMAIN handlers, reply \in SomeReplies : UploadSpecsResume(req, reply)

SpecUpload == Init /\ [][NextUpload]_vars

----------------------------------------------------------------------------
(* The collaborator call as the handler waits for it.  server.js creates   *)
(* the client with an apiKey only and passes no timeout, signal or retry   *)
(* option to create(): the awaited promise settles when, and only when,    *)
(* the client library settles it.  The event loop runs the continuation of *)
(* a handler once its promise has settled.                                 *)

\* the handler of req is suspended at the await of a collaborator call
AwaitsCollaborator(req) ==
  /\ req \in DOMAIN handlers
  /\ handlers[req].route = "upload-specs" => handlers[req].pc = "await"

\* the promise of the call of req settles with reply
CollaboratorAnswers(req, reply) ==
  /\ alive
  /\ AwaitsCollaborator(req)
  /\ "reply" \notin DOMAIN handlers[req]
  /\ handlers' = Put(handlers, req, handlers[req] @@ [reply |-> reply])
  /\ Resumed /\ Silent /\ Quiet
  /\ UNCHANGED <<now, alive, rfqStore, quoteStore, nreq, returned>>

\* the continuation of the settled await runs
Continue(req) ==
  /\ req \in DOMAIN handlers
  /\ "reply" \in DOMAIN handlers[req]
  /\ \/ ParseRequestResume(req, handlers[req].reply)
     \/ UploadSpecsResume(req, handlers[req].reply)
     \/ ClarifyResume(req, handlers[req].reply)
     \/ NegotiateResume(req, handlers[req].reply)

NextLive ==
  \/ ParseRequest(Str("Need 20 pcs 2-inch SS316 seamless pipe to Houston, NET30"), Undefined)
  \/ \E files \in Batches({NotesTxt}, 1) : UploadSpecs(files, Undefined)
  \/ \E req \in DOMAIN handlers : UploadExtracted(req, TRUE)
  \/ \E rfq \in {NormalizedRfq, MalformedRfq} : Clarify(rfq, Undefined, Undefined)
  \/ Negotiate(LegacyRfq, QuoteA, Undefined)
  \/ \E req \in DOMAIN handlers, reply \in SomeReplies :
       CollaboratorAnswers(req, reply)
  \/ \E req \in DOMAIN handlers : Continue(req)

\* what the scheduling of node guarantees: a file's extraction completes
\* and a settled await is continued.  Nothing makes the collaborator answer.
FairLive ==
  \A req \in 1..MaxReq : WF_vars(UploadExtracted(req, TRUE)) /\ WF_vars(Continue(req))

SpecLive == Init /\ [][NextLive]_vars /\ FairLive

\* the two entry points of the Normalizer with and without a project_name
\* in the request, one request after the other
NextNames ==
  \/ Tick
  \/ /\ handlers = EmptyObject
     /\ \E project_name \in ProjectNames :
          ParseRequest(Str("Need 20 pcs 2-inch SS316 seamless pipe to Houston, NET30"),
                       project_name)
  \/ \E req \in DOMAIN handlers, reply \in NormalizerReplies :
       ParseRequestResume(req, reply)
  \/ /\ handlers = EmptyObject
     /\ \E files \in Batches({NotesTxt}, 1), project_name \in ProjectNames :
          UploadSpecs(files, project_name)
  \/ \E req \in DOMAIN handlers : UploadExtracted(req, TRUE)
  \/ \E req \in DOMAIN handlers, reply \in NormalizerReplies :
       UploadSpecsResume(req, reply)

SpecNames == Init /\ [][NextNames]_vars

\* the two entry points of the Normalizer on short and long source text,
\* one request after the other
NextEntry ==
  \/ Tick
  \/ /\ handlers = EmptyObject
     /\ \E text \in (Texts \ {Undefined}) \cup {Str(ExactText), Str(LongText)} :
          ParseRequest(text, Undefined)
  \/ \E req \in DOMAIN handlers, reply \in NormalizerReplies :
       ParseRequestResume(req, reply)
  \/ /\ handlers = EmptyObject
     /\ \E files \in Batches({NotesTxt, LongTxt}, 1) : UploadSpecs(files, Undefined)
  \/ \E req \in DOMAIN handlers : UploadExtracted(req, TRUE)
  \/ \E req \in DOMAIN handlers, reply \in NormalizerReplies :
       UploadSpecsResume(req, reply)

SpecEntry == Init /\ [][NextEntry]_vars

\* upload-specs on batches with a file whose extraction throws, the
\* deletion of each temporary file succeeding or failing, one request
\* after the other within one clock tick
NextCleanup ==
  \/ /\ handlers = EmptyObject
     /\ \E files \in Batches({OldXls, NotesTxt}, MaxFiles) : UploadSpecs(files, Undefined)
  \/ \E req \in DOMAIN handlers, deleted \in BOOLEAN : UploadExtracted(req, deleted)
  \/ \E req \in DOMAIN handlers, reply \in SomeReplies : UploadSpecsResume(req, reply)

SpecCleanup == Init /\ [][NextCleanup]_vars

\* clarify on every history and message above, as concurrent requests
NextClarify ==
  \/ \E rfq \in {Undefined, NormalizedRfq, MalformedRfq},
        history \in Histories, user_message \in UserMessages :
       Clarify(rfq, history, user_message)
  \/ \E req \in DOMAIN handlers, reply \in TextReplies \cup {Resolves(Str(""))} :
       ClarifyResume(req, reply)

SpecClarify == Init /\ [][NextClarify]_vars

----------------------------------------------------------------------------
(* Properties *)

NormalizeRoutes == {"parse-request", "upload-specs"}

\* the ids the server can issue
IssuableIds == {RfqId(t) : t \in 0..MaxClock}

\* the latest step answered a normalization request with an RFQ
NormalizedOk == response.route \in NormalizeRoutes /\ response.status = 200
ReturnedId == Prop(response.body, "rfq_id").v

\* the collaborator's answer to a normalization request is an error, or no
\* JSON document, or a document that is no object
BadReply(reply) ==
  \/ ~reply.ok
  \/ JSONParse(reply.content).threw
  \/ JSONParse(reply.content).value.t # "object"

\* C1: every successful normalization request returns an RFQ whose id no
\* earlier successful normalization request of the process returned.
C1_UniqueIds ==
  [][NormalizedOk' => ReturnedId' \notin returned]_vars

\* C2: a record stored under an id stays under that id, unchanged, in every
\* later state.
C2_RecordsImmutable ==
  [][\A id \in DOMAIN rfqStore :
       id \in DOMAIN rfqStore' /\ rfqStore'[id] = rfqStore[id]]_vars

\* C3: GET rfqs/:id/quotes, for an id of the form the server issues,
\* answers {quotes: []} when the id names an existing RFQ with no quotes and
\* 404 when it names no RFQ in the RFQ store.
C3_ListQuotesStatus ==
  (response.route = "list-quotes" /\ response.id \in IssuableIds) =>
    IF response.id \in DOMAIN rfqStore
    THEN response.id \notin DOMAIN quoteStore =>
           /\ response.status = 200
           /\ response.body = Obj(<< <<"quotes", Arr(<<>>)>> >>)
    ELSE response.status = 404

\* C4: for every RFQ id, a successful quote submission to it extends the
\* list listQuotes returns by the submitted quote, at the end, and every
\* other step leaves that list as it is: the list is the successfully
\* submitted quotes in submission order.
C4_LedgerAppendOnly ==
  [][\A id \in IssuableIds :
       IF response'.route = "submit-quote" /\ response'.status = 200
          /\ response'.id = id
       THEN listQuotes(id)' = Arr(Append(listQuotes(id).v, request'.body))
       ELSE listQuotes(id)' = listQuotes(id)]_vars

\* two quotes were submitted to one RFQ, one after the other
C4_Witness ==
  /\ response.route = "submit-quote" /\ response.status = 200
  /\ \E id \in IssuableIds : listQuotes(id) = Arr(<<QuoteA, QuoteB>>)

\* C5: a quote submitted for an id with no record in the RFQ store is
\* answered 404, whatever the payload, and the ledger stays as it is.
C5_UnknownRfqNotFound ==
  [][(request'.route = "submit-quote" /\ request'.id \notin DOMAIN rfqStore)
       => (response'.status = 404 /\ quoteStore' = quoteStore)]_vars

\* C6: no step of a clarify request, from its arrival to its response,
\* success or failure, changes the RFQ store or the quote ledger.
C6_ClarifyWritesNothing ==
  [][(request'.route = "clarify" \/ call'.route = "clarify"
      \/ response'.route = "clarify")
       => (rfqStore' = rfqStore /\ quoteStore' = quoteStore)]_vars

\* a clarify request failed while both stores hold entries
C6_Witness ==
  /\ response.route = "clarify" /\ response.status = 500
  /\ call.route = "clarify" /\ ~call.reply.ok
  /\ DOMAIN rfqStore # {} /\ DOMAIN quoteStore # {}

\* C7: when the collaborator's answer to a normalization request is an
\* error or cannot be parsed, the request is answered 500 with a detail
\* string, the RFQ store stays as it is, the process lives on and the other
\* suspended handlers stay as they are.
C7_NormalizationFailure ==
  [][(call'.route \in NormalizeRoutes /\ call'.reply # Pending
      /\ BadReply(call'.reply))
       => /\ response'.req = call'.req
          /\ response'.status = 500
          /\ Prop(response'.body, "detail").t = "string"
          /\ rfqStore' = rfqStore
          /\ alive'
          /\ handlers' = [r \in DOMAIN handlers \ {call'.req} |-> handlers[r]]]_vars

\* an unparseable answer was turned into a 500 while an RFQ is stored and
\* another request is waiting for its answer
C7_Witness ==
  /\ response.route \in NormalizeRoutes /\ response.status = 500
  /\ call.reply.ok /\ BadReply(call.reply)
  /\ DOMAIN rfqStore # {} /\ DOMAIN handlers # {}

\* C8: when a normalization request is answered with an RFQ, the store
\* holds that RFQ under its id at that moment, and a later GET rfqs/:id of
\* a returned id is answered with the stored record, never 404.
C8_StoredBeforeResponse ==
  /\ NormalizedOk => (ReturnedId \in DOMAIN rfqStore /\ rfqStore[ReturnedId] = response.body)
  /\ (response.route = "get-rfq" /\ response.id \in returned)
       => (response.status = 200 /\ response.body = rfqStore[response.id])

\* an RFQ returned by upload-specs or parse-request was read back
C8_Witness ==
  response.route = "get-rfq" /\ response.id \in returned /\ response.status = 200

\* a request misses a field its route requires
MissingField(rq) ==
  \/ rq.route = "parse-request" /\ Prop(rq.body, "text") = Undefined
  \/ rq.route = "clarify" /\ Prop(rq.body, "rfq") = Undefined
  \/ rq.route = "negotiate"
     /\ (Prop(rq.body, "rfq") = Undefined \/ Prop(rq.body, "quote") = Undefined)
  \/ rq.route = "upload-specs" /\ Prop(rq.body, "files").v = <<>>

\* C9: a request missing a required field is answered 400 in the step that
\* accepts it, with no call to the collaborator, no handler left suspended
\* and both stores as they were.
C9_ValidationFailure ==
  [][MissingField(request')
       => /\ response'.req = request'.req
          /\ response'.status = 400
          /\ call' = NoCall
          /\ handlers' = handlers
          /\ rfqStore' = rfqStore /\ quoteStore' = quoteStore]_vars

\* negotiate with an rfq and no quote was refused while the stores hold
\* entries
C9_Witness ==
  /\ request.route = "negotiate" /\ response.status = 400
  /\ Truthy(Prop(request.body, "rfq")) /\ ~Truthy(Prop(request.body, "quote"))
  /\ DOMAIN rfqStore # {}

\* the texts of the files whose extraction did not throw, in upload order
ExtractedTexts(files) ==
  LET ok == SelectSeq(files, LAMBDA f : ~extractTextFromFile(f).threw)
  IN [i \in 1..Len(ok) |-> extractTextFromFile(ok[i]).text]

\* what the Normalizer is to be invoked with for a batch
ExpectedCombinedText(files) ==
  IF ExtractedTexts(files) = <<>> THEN fallbackText(files)
  ELSE Join(ExtractedTexts(files), FileSeparator)

\* C10: in an upload-specs batch, extraction goes on past the files whose
\* extraction fails; the Normalizer is invoked with the texts of the files
\* whose extraction succeeded, in upload order, joined by the file
\* separator, or with the fallback text when there is none; and the request
\* fails only when the collaborator's answer is an error or unparseable.
C10_UploadBestEffort ==
  /\ \A req \in DOMAIN handlers :
       handlers[req].route = "upload-specs" =>
         LET h == handlers[req]
         IN IF h.pc = "extract"
            THEN /\ h.idx \in 1..Len(h.files)
                 /\ h.texts = ExtractedTexts(SubSeq(h.files, 1, h.idx - 1))
            ELSE h.combinedText = ExpectedCombinedText(h.files)
  /\ (call.route = "upload-specs" /\ call.reply = Pending)
       => call.messages = parseSpecsMessages(
                            ExpectedCombinedText(handlers[call.req].files),
                            handlers[call.req].project_name)
  /\ (response.route = "upload-specs" /\ response.status = 500)
       => (call.req = response.req /\ call.reply # Pending /\ BadReply(call.reply))

\* the Normalizer was called for a batch in which a file that failed comes
\* before a file that gave text
C10_Witness ==
  /\ call.route = "upload-specs" /\ call.reply = Pending
  /\ LET files == handlers[call.req].files
     IN \E i, j \in 1..Len(files) :
          /\ i < j
          /\ extractTextFromFile(files[i]).threw
          /\ ~extractTextFromFile(files[j]).threw

\* C11: every request whose handler called the reasoning collaborator is
\* eventually answered, whether or not the collaborator answers the call.
C11_EventuallyAnswered ==
  \A req \in 1..MaxReq :
    (call.req = req /\ call.reply = Pending) ~> (response.req = req)

\* a name that was given: a string that is not empty
NonEmptyName(x) == x.t = "string" /\ x.v # ""

\* the name the collaborator's answer carries
ExtractedName(reply) == Prop(JSONParse(reply.content).value, "project_name")

\* extracted name, then hint, then the placeholder
NameByPrecedence(extracted, hint) ==
  IF NonEmptyName(extracted) THEN extracted
  ELSE IF NonEmptyName(hint) THEN hint
  ELSE Str("Untitled RFQ")

\* C12: the project_name of every RFQ that parse-request or upload-specs
\* creates is the name the collaborator extracted when that is not empty,
\* otherwise the project_name of the request when one was given, otherwise
\* "Untitled RFQ".
C12_ProjectNamePrecedence ==
  [][(response'.route \in NormalizeRoutes /\ response'.status = 200)
       => Prop(response'.body, "project_name")
            = NameByPrecedence(ExtractedName(call'.reply),
                               handlers[response'.req].project_name)]_vars

\* an upload whose answer carries no name took the name of the request,
\* after a parse-request took the extracted name over the request's
C12_Witness ==
  /\ response.route = "upload-specs" /\ response.status = 200
  /\ ~NonEmptyName(ExtractedName(call.reply))
  /\ Prop(response.body, "project_name") = Str("Houston expansion")
  /\ \E id \in DOMAIN rfqStore :
       /\ Prop(rfqStore[id], "project_name") = Str("Plant A")
       /\ Prop(rfqStore[id], "original_text").v
            = "Need 20 pcs 2-inch SS316 seamless pipe to Houston, NET30"

\* the source text a user turn carries between its triple quotes
QuotedText(content) ==
  LET marks == {i \in 1..Len(content) - 2 : SubSeq(content, i, i + 2) = "\"\"\""}
      first == CHOOSE i \in marks : \A j \in marks : i <= j
      last == CHOOSE i \in marks : \A j \in marks : j <= i
  IN SubSeq(content, first + 3, last - 1)

\* the source text of the normalization request req
SourceText(req) ==
  IF handlers[req].route = "parse-request" THEN handlers[req].text.v
  ELSE handlers[req].combinedText

\* the line items a reply gives: its line_items when that is a sequence
ItemsOf(reply) ==
  LET items == Prop(JSONParse(reply.content).value, "line_items")
  IN IF IsArray(items) THEN items ELSE Arr(<<>>)

\* C13: parse-request and upload-specs both send the collaborator the
\* source text cut to its first MAX_CHARS characters followed by the
\* truncation marker when it is longer than that, and the source text as
\* it is otherwise; and both give the RFQ the line_items of the reply when
\* that is a sequence and no items when it is absent or no sequence.
C13_SameRules ==
  /\ (call.route \in NormalizeRoutes /\ call.reply = Pending)
       => QuotedText(call.messages[2].content) = Truncated(SourceText(call.req))
  /\ (response.route \in NormalizeRoutes /\ response.status = 200)
       => Prop(response.body, "line_items") = ItemsOf(call.reply)

\* how often quote q is in the ledger list of id
LedgerCount(id, q) ==
  Cardinality({i \in 1..Len(listQuotes(id).v) : listQuotes(id).v[i] = q})

\* C14: whatever requests are in flight, a quote submitted with a
\* structured payload for an existing RFQ id is accepted and is added to
\* that id's ledger list exactly once, with every quote already in the list
\* kept exactly as often as it was; no other step changes how often a quote
\* is in a list.
C14_AtomicAppends ==
  [][/\ (request'.route = "submit-quote" /\ request'.id \in DOMAIN rfqStore
         /\ request'.body \in {QuoteA, QuoteB})
          => response'.status = 200
     /\ \A id \in IssuableIds, q \in {QuoteA, QuoteB} :
          LedgerCount(id, q)'
            = LedgerCount(id, q)
              + (IF response'.route = "submit-quote" /\ response'.status = 200
                    /\ response'.id = id /\ request'.body = q
                 THEN 1 ELSE 0)]_vars

\* both quotes are in one RFQ's ledger, once each, in the order in which
\* QuoteB's handler ran first
C14_Witness ==
  /\ response.route = "submit-quote" /\ response.status = 200
  /\ request.body = QuoteA
  /\ LedgerCount(response.id, QuoteA) = 1 /\ LedgerCount(response.id, QuoteB) = 1

\* the paths of the first n files of a batch, in upload order
PathsOf(files, n) == [i \in 1..n |-> files[i].path]

\* C15: in an upload-specs request the temporary files whose deletion has
\* been attempted are, each exactly once and in upload order, the files
\* whose extraction is over, whether it gave text or threw: all files
\* before the one being extracted, and all files of the batch once the
\* collaborator has been called; and the response is what the files, the
\* request's project_name and the collaborator's answer determine, whether
\* the deletions succeeded or failed.
C15_CleanupOnce ==
  [][/\ \A req \in DOMAIN handlers' :
          handlers'[req].route = "upload-specs" =>
            handlers'[req].unlinked
              = PathsOf(handlers'[req].files,
                        IF handlers'[req].pc = "extract"
                        THEN handlers'[req].idx - 1
                        ELSE Len(handlers'[req].files))
     /\ (response'.route = "upload-specs" /\ response'.status # 400) =>
          LET h == handlers[response'.req]
              try == uploadSpecsTry(ExpectedCombinedText(h.files), h.project_name,
                                    call'.reply, now)
          IN /\ h.unlinked = PathsOf(h.files, Len(h.files))
             /\ response'.status = IF try.threw THEN 500 ELSE 200
             /\ try.threw => Prop(response'.body, "detail") = Str(try.message)
             /\ ~try.threw => response'.body = try.rfq]_vars

\* the collaborator is called for a batch of two files, the first one's
\* extraction threw and its temporary file could not be deleted
C15_Witness ==
  /\ call.route = "upload-specs" /\ call.reply = Pending
  /\ LET h == handlers[call.req]
     IN /\ Len(h.files) = 2
        /\ extractTextFromFile(h.files[1]).threw
        /\ h.leftover = <<h.files[1].path>>
        /\ h.unlinked = PathsOf(h.files, 2)

\* rfq has the shape the Normalizer stores: its items under line_items
NormalizerShaped(rfq) ==
  /\ rfq.t = "object"
  /\ IsArray(Prop(rfq, "line_items"))
  /\ Prop(rfq, "items") = Undefined

\* C16: when negotiate calls the collaborator for an rfq in the shape the
\* Normalizer produces, the context it sends has one item per line item of
\* the rfq, in order, with that line item's description, grade, quantity
\* and unit of measure, and has the quote as it was given.
C16_NegotiateContextItems ==
  (request.route = "negotiate" /\ call.route = "negotiate" /\ call.reply = Pending
   /\ NormalizerShaped(Prop(request.body, "rfq")))
    => LET rfq == Prop(request.body, "rfq")
           quote == Prop(request.body, "quote")
           context == negotiateContext(rfq, quote)
           items == Prop(Prop(context, "rfq"), "items").v
           lineItems == Prop(rfq, "line_items").v
       IN /\ call.messages = negotiateMessages(rfq, quote, Prop(request.body, "goal"))
          /\ Prop(context, "quote") = quote
          /\ Len(items) = Len(lineItems)
          /\ \A i \in 1..Len(items) :
               /\ Prop(items[i], "description") = Prop(lineItems[i], "raw_description")
               /\ Prop(items[i], "grade") = Prop(lineItems[i], "material_grade")
               /\ Prop(items[i], "quantity") = Prop(lineItems[i], "quantity")
               /\ Prop(items[i], "uom") = Prop(lineItems[i], "unit")

\* the entries of a history, none when it is no sequence
HistoryEntries(history) == IF IsArray(history) THEN history.v ELSE <<>>

\* text begins with prefix
StartsWith(text, prefix) ==
  Len(text) >= Len(prefix) /\ SubSeq(text, 1, Len(prefix)) = prefix

\* C17: the turns clarify sends are the system instruction, the RFQ
\* summary turn, one turn per history entry in the history's order, with
\* role "assistant" for an entry of role "assistant" and "user" for any
\* other, and one last user turn: the latest-message turn when the request
\* has a message, the propose-refinements turn when it has none.  A
\* history that is no sequence gives no turns.
C17_TurnSequence ==
  (request.route = "clarify" /\ call.route = "clarify" /\ call.reply = Pending)
    => LET entries == HistoryEntries(Prop(request.body, "history"))
           message == Prop(request.body, "user_message")
           turns == call.messages
           n == Len(entries)
       IN /\ Len(turns) = n + 3
          /\ turns[1] = Msg("system", ClarifySystemPrompt)
          /\ turns[2].role = "user"
          /\ StartsWith(turns[2].content, "Here is the current structured RFQ JSON:")
          /\ \A i \in 1..n :
               /\ turns[2 + i].role
                    = IF Prop(entries[i], "role") = Str("assistant")
                      THEN "assistant" ELSE "user"
               /\ turns[2 + i].content
                    = IF Truthy(Prop(entries[i], "content"))
                      THEN Prop(entries[i], "content").v ELSE ""
          /\ turns[n + 3].role = "user"
          /\ turns[n + 3].content
               = IF message.t = "string" /\ message.v # ""
                 THEN "Latest buyer message (may clarify destination, dates, payment, etc.):\n\n"
                      \o message.v
                 ELSE "No new buyer message; just suggest next refinements based on the RFQ JSON."

\* a call whose history has an entry of role "system" and one without a
\* role, with a message in the request
C17_Witness ==
  /\ request.route = "clarify" /\ call.route = "clarify" /\ call.reply = Pending
  /\ Prop(request.body, "history") = History2
  /\ Truthy(Prop(request.body, "user_message"))
  /\ Len(call.messages) = 6

\* the collaborator's content is missing, empty or whitespace only
NoContent(content) == content.t \in {"undefined", "null"} \/ Blank(content.v)

\* C18: when the collaborator call of clarify succeeds the request is
\* answered 200 with an assistant_message that is a string, not empty and
\* with no whitespace at either end: the fixed default message when the
\* collaborator's content is missing, empty or whitespace only, and the
\* trimmed content otherwise.
C18_AssistantMessageNonEmpty ==
  (response.route = "clarify" /\ call.route = "clarify" /\ call.reply.ok)
    => LET message == Prop(response.body, "assistant_message")
       IN /\ response.status = 200
          /\ message.t = "string"
          /\ message.v # ""
          /\ Trim(message.v) = message.v
          /\ message.v = IF NoContent(call.reply.content)
                         THEN DefaultAssistantMessage
                         ELSE Trim(call.reply.content.v)

\* a whitespace-only reply was answered with the default message
C18_Witness ==
  /\ response.route = "clarify" /\ response.status = 200
  /\ call.reply.ok /\ call.reply.content = Str("  \n")
  /\ Prop(response.body, "assistant_message") = Str(DefaultAssistantMessage)

\* C19: every id that has a list in the quote ledger has a record in the
\* RFQ store, and every list in the ledger is a sequence with at least one
\* quote.
C19_LedgerIdsHaveRfq ==
  \A id \in DOMAIN quoteStore :
    /\ id \in DOMAIN rfqStore
    /\ IsArray(quoteStore[id])
    /\ quoteStore[id].v # <<>>

\* a quote for an id with no RFQ record was turned away while the ledger
\* holds a list
C19_Witness ==
  /\ request.route = "submit-quote" /\ request.body = QuoteA
  /\ request.id \notin DOMAIN rfqStore
  /\ response.status # 200
  /\ DOMAIN quoteStore # {}

====
